---- MODULE Spec2Model ----
(***************************************************************************)
(* Model of the kubernetes_job resource of terraform-provider-kubernetes   *)
(* (kubernetes/resource_kubernetes_job.go): the Create / Read / Update /   *)
(* Delete / Exists handlers acting on one schema.ResourceData `d` and on   *)
(* a remote API whose answers are chosen nondeterministically.             *)
(*                                                                         *)
(* Strings that the code parses (the identifier) are sequences of          *)
(* one-character strings, so that idParts really splits and buildId        *)
(* really concatenates.                                                    *)
(***************************************************************************)
EXTENDS Integers, Sequences, FiniteSets, TLC

VARIABLES
    id,      \* d.Id(): the local identifier, a sequence of characters
    st,      \* d's projected attributes: [metadata, spec], each set or not
    pc,      \* position of the running handler; "done" once it returned,
             \* "idle" between invocations, "crashed" after a panic
    op,      \* the handler the framework invoked last
    args,    \* configuration / collaborator inputs of that invocation
    pre,     \* d as it was when the handler was invoked: [id, st]
    trace,   \* remote calls (and waits) of the invocation, in order
    ret,     \* what the handler returned: [done, err, exists]
    clock,   \* seconds elapsed inside resource.Retry
    lerr,    \* the error resource.Retry hands back to Delete
    val      \* the last call of a validator: [fn, i, p, es, panic]

vars == <<id, st, pc, op, args, pre, trace, ret, clock, lerr, val>>
\* the variables of the resource handlers
hvars == <<id, st, pc, op, args, pre, trace, ret, clock, lerr>>

----------------------------------------------------------------------------
(* Bounds of the model *)

\* a wait of the polling loop lasts WaitUnit * k seconds, k \in 1..MaxWait
WaitUnit == 10
MaxWait == 2
\* the validators' integer bounds range over 0..MaxVal, their integer
\* inputs over -1..MaxVal+1
MaxVal == 3
\* an IP address has AddrBits bits (one binary digit each)
AddrBits == 3
\* lists given to ValidateListUniqueStrings have at most MaxList elements
MaxList == 3

(* Program constants *)

\* resource.Retry(1*time.Minute, ...)
DeleteTimeout == 60
\* statusErr.ErrStatus.Code == 404
NotFoundCode == 404

----------------------------------------------------------------------------
(* Errors: every error value is a record [type, code] *)

NoErr == [type |-> "nil", code |-> 0]
StatusError(c) == [type |-> "StatusError", code |-> c]
PlainErr == [type |-> "error", code |-> 0]
IdErr == [type |-> "idParts", code |-> 0]
ExpandErr == [type |-> "expandJobSpec", code |-> 0]
PatchSpecErr == [type |-> "patchJobSpec", code |-> 0]
MarshalErr == [type |-> "marshal", code |-> 0]
FlattenErr == [type |-> "flattenJobSpec", code |-> 0]
SetErr == [type |-> "d.Set", code |-> 0]
TimeoutErr == [type |-> "TimeoutError", code |-> 0]
PanicErr == [type |-> "panic", code |-> 0]

\* what a remote call can fail with: a 404 status, another status, or an
\* error that is no *errors.StatusError at all
RemoteErrors == {StatusError(NotFoundCode), StatusError(500), PlainErr}
RemoteResults == {NoErr} \cup RemoteErrors

----------------------------------------------------------------------------
(* Identifiers: buildId / idParts *)

\* strings.Split(s, "/")
RECURSIVE Split(_)
Split(s) ==
    IF \A i \in 1..Len(s) : s[i] # "/"
    THEN <<s>>
    ELSE LET i == CHOOSE k \in 1..Len(s) :
                      s[k] = "/" /\ \A j \in 1..(k - 1) : s[j] # "/"
         IN  <<SubSeq(s, 1, i - 1)>> \o Split(SubSeq(s, i + 1, Len(s)))

\* idParts(id): (namespace, name, err); an id that does not split into
\* exactly two parts is an error
idParts(s) ==
    LET parts == Split(s)
    IN  IF Len(parts) # 2
        THEN [ns |-> <<>>, name |-> <<>>, err |-> IdErr]
        ELSE [ns |-> parts[1], name |-> parts[2], err |-> NoErr]

\* the handlers going on with an identifier that did not parse
ParseFails_Ignored(p) == FALSE

\* "if err != nil { return err }" after idParts: the handler returns at once
ParseFails(p) == p.err # NoErr

\* buildId(meta) = meta.Namespace + "/" + meta.Name
buildId(meta) == meta.ns \o <<"/">> \o meta.name

Namespaces == {<<>>, <<"n">>}
Names == {<<"j">>, <<"k">>}
\* the ObjectMeta of the object a create or patch call returns
ObjectMetas == [ns : Namespaces, name : Names]

\* identifiers a user can hand to `terraform import`: any string
ImportIds == {<<"j">>, <<"n", "/", "j">>, <<"/", "k">>,
              <<"n", "/", "j", "/", "k">>}

----------------------------------------------------------------------------
(* Label maps and the job object a get returns *)

LabelKeys == {"controller-uid", "job-name", "app"}
SelectorKeys == {"controller-uid", "app"}
LabelValues == {"v"}

\* a Go map[string]string: nil, or a finite map
NilMap == [nil |-> TRUE, m |-> <<>>]
MapOf(f) == [nil |-> FALSE, m |-> f]
LabelMaps(K) ==
    {NilMap} \cup {MapOf(f) : f \in UNION {[S -> LabelValues] : S \in SUBSET K}}

\* _, ok := labels[k]
HasKey(map, k) == ~map.nil /\ k \in DOMAIN map.m

\* delete(labels, k): a no-op on a nil map or an absent key
DeleteKey(map, k) ==
    IF map.nil THEN map
    ELSE MapOf([x \in (DOMAIN map.m) \ {k} |-> map.m[x]])

\* *metav1.LabelSelector: a nil pointer, or a selector with MatchLabels
NilSelector == [nil |-> TRUE, matchLabels |-> NilMap]
Selectors ==
    {NilSelector} \cup
    {[nil |-> FALSE, matchLabels |-> l] : l \in LabelMaps(SelectorKeys)}

\* the part of a batchv1.Job that Read touches
Jobs == [labels : LabelMaps(LabelKeys), selector : Selectors]

\* the objects the get of Read answers with under Spec: no labels or all of
\* them, no selector or the server-generated one
ServerJobs ==
    {j \in Jobs :
        /\ j.labels \in {NilMap, MapOf([k \in LabelKeys |-> "v"])}
        /\ j.selector \in {NilSelector,
                           [nil |-> FALSE,
                            matchLabels |-> MapOf([k \in {"controller-uid"} |-> "v"])]}}

\* d's attributes "metadata" and "spec": not yet set, or set to a projection
UnsetMetadata == [set |-> FALSE, labels |-> NilMap]
UnsetSpec == [set |-> FALSE, selector |-> NilSelector]
NoState == [metadata |-> UnsetMetadata, spec |-> UnsetSpec]

----------------------------------------------------------------------------
(* Trace of an invocation: remote calls and waits *)

\* a remote call c that answered r; doc is the patch document sent, out the
\* ObjectMeta of the object a successful create or patch returned, or the
\* object a successful get of Read returned
NoMeta == [ns |-> <<>>, name |-> <<>>]
Event(c, r, doc, out) == [call |-> c, res |-> r, doc |-> doc, out |-> out]
Calls(c) == {i \in 1..Len(trace) : trace[i].call = c}

Pending == [done |-> FALSE, err |-> NoErr, exists |-> FALSE]
Returned(e, x) == [done |-> TRUE, err |-> e, exists |-> x]

Min(a, b) == IF a < b THEN a ELSE b

----------------------------------------------------------------------------
(* The framework: dispatch of the handlers, import *)

Handlers == {"Create", "Read", "Update", "Delete", "Exists"}

MetaFields == {"annotations", "labels"}
SpecFields == {"parallelism", "template"}

NoArgs == [manual |-> FALSE, metaChanges |-> {}, specChanges |-> {},
           expandFail |-> FALSE, specFail |-> FALSE, marshalFail |-> FALSE]

\* the inputs of a handler: which fields changed (Update) and what its
\* local collaborators answer (expandJobSpec, patchJobSpec, MarshalJSON
\* failing); patchJobSpec runs only when the spec changed, MarshalJSON only
\* when patchJobSpec did not fail. Whether spec.0.manual_selector is set is
\* recorded when Read asks for it.
ArgsOf(h) ==
    CASE h = "Update" ->
            {a \in [manual : {FALSE}, metaChanges : SUBSET MetaFields,
                    specChanges : SUBSET SpecFields, expandFail : {FALSE},
                    specFail : BOOLEAN, marshalFail : BOOLEAN] :
                /\ a.specFail => a.specChanges # {}
                /\ a.marshalFail => ~a.specFail}
      [] h = "Create" ->
            [manual : {FALSE}, metaChanges : {{}}, specChanges : {{}},
             expandFail : BOOLEAN, specFail : {FALSE}, marshalFail : {FALSE}]
      [] OTHER -> {NoArgs}

\* schema.Resource dispatches one handler at a time, here one of H; Create
\* is dispatched only for a resource that has no identifier yet
InvokeOf(H) ==
    /\ pc = "idle"
    /\ \E h \in H :
         /\ h = "Create" => id = <<>>
         /\ \E a \in ArgsOf(h) :
              /\ op' = h
              /\ pc' = h
              /\ args' = a
    /\ pre' = [id |-> id, st |-> st]
    /\ trace' = <<>>
    /\ ret' = Pending
    /\ clock' = 0
    /\ lerr' = NoErr
    /\ UNCHANGED <<id, st, val>>

Invoke == InvokeOf(Handlers)

\* Importer: schema.ImportStatePassthrough: the identifier is whatever
\* string the user gave, the attributes are empty
ImportStatePassthrough ==
    /\ pc = "idle"
    /\ \E s \in ImportIds : id' = s
    /\ st' = NoState
    /\ UNCHANGED <<pc, op, args, pre, trace, ret, clock, lerr, val>>

\* the framework takes the handler's result; d is at rest until the next
\* invocation
Finish ==
    /\ pc = "done"
    /\ pc' = "idle"
    /\ op' = "none"
    /\ args' = NoArgs
    /\ pre' = [id |-> <<>>, st |-> NoState]
    /\ trace' = <<>>
    /\ ret' = Pending
    /\ clock' = 0
    /\ lerr' = NoErr
    /\ UNCHANGED <<id, st, val>>

\* a handler returns err (and, for Exists, a boolean)
Return(e, x) ==
    /\ pc' = "done"
    /\ ret' = Returned(e, x)

----------------------------------------------------------------------------
(* Delete *)

StillExistsErr == [type |-> "still exists", code |-> 0]

\* statusErr, ok := err.(*errors.StatusError); ok && statusErr.ErrStatus.Code == 404
IsNotFound(err) == err.type = "StatusError" /\ err.code = NotFoundCode

\* RetryFunc with the 404 case forgotten: not-found is fatal like any error
RetryFunc_NotFoundFatal(err) ==
    IF err # NoErr
    THEN [kind |-> "NonRetryable", err |-> err]
    ELSE [kind |-> "Retryable", err |-> StillExistsErr]

\* RetryFunc retrying on every error that is not a 404
RetryFunc_RetryOnError(err) ==
    IF err # NoErr /\ IsNotFound(err)
    THEN [kind |-> "nil", err |-> NoErr]
    ELSE [kind |-> "Retryable", err |-> StillExistsErr]

\* RetryFunc giving up as soon as the object is still readable
RetryFunc_NoRetry(err) ==
    IF err # NoErr
    THEN IF IsNotFound(err)
         THEN [kind |-> "nil", err |-> NoErr]
         ELSE [kind |-> "NonRetryable", err |-> err]
    ELSE [kind |-> "NonRetryable", err |-> StillExistsErr]

\* the function handed to resource.Retry, applied to the error of its get:
\* nil (done), NonRetryableError(err) or RetryableError("still exists")
RetryFunc(err) ==
    IF err # NoErr
    THEN IF IsNotFound(err)
         THEN [kind |-> "nil", err |-> NoErr]
         ELSE [kind |-> "NonRetryable", err |-> err]
    ELSE [kind |-> "Retryable", err |-> StillExistsErr]

\* DeleteId with SetId("") moved before the error check
DeleteId_ClearFirst(loopErr, old) == <<>>

\* the identifier Delete leaves, given what resource.Retry returned
DeleteId(loopErr, old) == IF loopErr # NoErr THEN old ELSE <<>>

\* Delete taking a 404 of its delete call for a deletion already done
DeleteFails_NotFoundIsSuccess(r) == r # NoErr /\ ~IsNotFound(r)

\* "if err != nil { return err }" after the delete call: any error, a 404
\* included, ends Delete
DeleteFails(r) == r # NoErr

\* Delete up to the remote delete call: a malformed identifier or a failed
\* delete returns at once, otherwise the polling loop starts
resourceKubernetesJobDelete ==
    /\ pc = "Delete"
    /\ LET p == idParts(id)
       IN  IF ParseFails(p)
           THEN /\ Return(p.err, FALSE)
                /\ UNCHANGED <<trace>>
           ELSE \E r \in RemoteResults :
                  /\ trace' = Append(trace, Event("delete", r, <<>>, NoMeta))
                  /\ IF DeleteFails(r)
                     THEN Return(r, FALSE)
                     ELSE pc' = "Poll" /\ UNCHANGED ret
    /\ UNCHANGED <<id, st, op, args, pre, clock, lerr, val>>

\* resource.Retry on what the function returned: nil ends the loop with
\* success, a non-retryable error ends it with that error, a retryable one
\* asks for another attempt
RetryOn(x, old) ==
    CASE x.kind = "nil" -> [pc |-> "DeleteDone", lerr |-> NoErr]
      [] x.kind = "NonRetryable" -> [pc |-> "DeleteDone", lerr |-> x.err]
      [] OTHER -> [pc |-> "Wait", lerr |-> old]

\* one attempt of the polling loop: the function's get and what it returns
DeletePoll ==
    /\ pc = "Poll"
    /\ \E r \in RemoteResults :
         /\ trace' = Append(trace, Event("get", r, <<>>, NoMeta))
         /\ LET next == RetryOn(RetryFunc(r), lerr)
            IN  lerr' = next.lerr /\ pc' = next.pc
    /\ UNCHANGED <<id, st, op, args, pre, ret, clock, val>>

\* resource.Retry between two attempts: it sleeps (a backoff that ends at
\* the deadline at the latest), and at the deadline it gives up with a
\* timeout error instead of running the function again
RetryWait ==
    /\ pc = "Wait"
    /\ \E k \in 1..MaxWait :
         LET c == Min(clock + k * WaitUnit, DeleteTimeout)
         IN  /\ clock' = c
             /\ IF c >= DeleteTimeout
                THEN lerr' = TimeoutErr /\ pc' = "DeleteDone"
                ELSE lerr' = lerr /\ pc' = "Poll"
    /\ trace' = Append(trace, Event("wait", NoErr, <<>>, NoMeta))
    /\ UNCHANGED <<id, st, op, args, pre, ret, val>>

\* Delete starting over whenever resource.Retry failed
DeleteFinish_Restart ==
    /\ pc = "DeleteDone"
    /\ IF lerr # NoErr
       THEN /\ pc' = "Delete"
            /\ trace' = <<>>
            /\ clock' = 0
            /\ lerr' = NoErr
            /\ UNCHANGED <<id, ret>>
       ELSE /\ id' = DeleteId(lerr, id)
            /\ Return(lerr, FALSE)
            /\ UNCHANGED <<trace, clock, lerr>>
    /\ UNCHANGED <<st, op, args, pre, val>>

\* Delete after resource.Retry: its error is returned, otherwise SetId("")
DeleteFinish ==
    /\ pc = "DeleteDone"
    /\ id' = DeleteId(lerr, id)
    /\ Return(lerr, FALSE)
    /\ UNCHANGED <<st, op, args, pre, trace, clock, lerr, val>>

----------------------------------------------------------------------------
(* Exists *)

\* ExistsResult reporting absence on every error
ExistsResult_FalseOnError(err) ==
    IF err # NoErr /\ IsNotFound(err)
    THEN [exists |-> FALSE, err |-> NoErr]
    ELSE [exists |-> err = NoErr, err |-> err]

\* what Exists returns for the error of its get
ExistsResult(err) ==
    IF err # NoErr /\ IsNotFound(err)
    THEN [exists |-> FALSE, err |-> NoErr]
    ELSE [exists |-> TRUE, err |-> err]

resourceKubernetesJobExists ==
    /\ pc = "Exists"
    /\ LET p == idParts(id)
       IN  IF ParseFails(p)
           THEN /\ Return(p.err, FALSE)
                /\ UNCHANGED trace
           ELSE \E r \in RemoteResults :
                  /\ trace' = Append(trace, Event("get", r, <<>>, NoMeta))
                  /\ Return(ExistsResult(r).err, ExistsResult(r).exists)
    /\ UNCHANGED <<id, st, op, args, pre, clock, lerr, val>>

----------------------------------------------------------------------------
(* Read *)

\* StripLabels with the job-name label left in place
StripLabels_KeepJobName(manual, job) ==
    IF manual THEN job
    ELSE [labels |-> DeleteKey(job.labels, "controller-uid"),
          selector |-> [nil |-> FALSE,
                        matchLabels |-> DeleteKey(job.selector.matchLabels,
                                                  "controller-uid")]]

\* lines 121-137: with manual_selector not set, the server-generated labels
\* are deleted from the object's maps (job.Spec.Selector is dereferenced)
StripLabels(manual, job) ==
    IF manual THEN job
    ELSE [labels |-> DeleteKey(DeleteKey(job.labels, "controller-uid"), "job-name"),
          selector |-> [nil |-> FALSE,
                        matchLabels |-> DeleteKey(job.selector.matchLabels,
                                                  "controller-uid")]]

\* job.Spec.Selector.MatchLabels on a nil Selector is a nil dereference
ReadPanics(manual, job) == ~manual /\ job.selector.nil

\* flattenMetadata / flattenJobSpec: the labels and the selector as d holds
\* them (a nil map is held as an empty one)
flattenLabels(map) == IF map.nil THEN MapOf(<<>>) ELSE map
flattenMetadata(job) == [set |-> TRUE, labels |-> flattenLabels(job.labels)]
flattenJobSpec(job) ==
    [set |-> TRUE,
     selector |-> IF job.selector.nil THEN NilSelector
                  ELSE [nil |-> FALSE,
                        matchLabels |-> flattenLabels(job.selector.matchLabels)]]

\* where the projection of lines 139-152 can fail
ReadFailures == {"none", "set metadata", "flattenJobSpec", "set spec"}

\* lines 139-154: d.Set("metadata"), flattenJobSpec, d.Set("spec"), each
\* returning its error at once
Project(old, job, fail) ==
    CASE fail = "set metadata" ->
            [st |-> old, err |-> SetErr]
      [] fail = "flattenJobSpec" ->
            [st |-> [old EXCEPT !.metadata = flattenMetadata(job)], err |-> FlattenErr]
      [] fail = "set spec" ->
            [st |-> [old EXCEPT !.metadata = flattenMetadata(job)], err |-> SetErr]
      [] OTHER ->
            [st |-> [metadata |-> flattenMetadata(job), spec |-> flattenJobSpec(job)],
             err |-> NoErr]

\* Read dropping the projected attributes when its get fails
ReadFrom_ClearOnError(J) ==
    /\ pc = "Read"
    /\ LET p == idParts(id)
       IN  IF ParseFails(p)
           THEN /\ Return(p.err, FALSE)
                /\ UNCHANGED <<st, trace, args>>
           ELSE \E r \in RemoteResults :
                  IF r # NoErr
                  THEN /\ trace' = Append(trace, Event("get", r, <<>>, NoMeta))
                       /\ Return(r, FALSE) /\ st' = NoState /\ UNCHANGED args
                  ELSE \E job \in J, fail \in ReadFailures, manual \in BOOLEAN :
                            /\ trace' = Append(trace, Event("get", r, <<>>, job))
                            /\ args' = [args EXCEPT !.manual = manual]
                            /\ IF ReadPanics(manual, job)
                               THEN /\ pc' = "crashed"
                                    /\ UNCHANGED <<st, ret>>
                               ELSE LET res == Project(st, StripLabels(manual, job), fail)
                                    IN  /\ st' = res.st
                                        /\ Return(res.err, FALSE)
    /\ UNCHANGED <<id, op, pre, clock, lerr, val>>

\* Read, with the get answering from the objects of J
ReadFrom(J) ==
    /\ pc = "Read"
    /\ LET p == idParts(id)
       IN  IF ParseFails(p)
           THEN /\ Return(p.err, FALSE)
                /\ UNCHANGED <<st, trace, args>>
           ELSE \E r \in RemoteResults :
                  IF r # NoErr
                  THEN /\ trace' = Append(trace, Event("get", r, <<>>, NoMeta))
                       /\ Return(r, FALSE) /\ UNCHANGED <<st, args>>
                  ELSE \E job \in J, fail \in ReadFailures, manual \in BOOLEAN :
                            /\ trace' = Append(trace, Event("get", r, <<>>, job))
                            /\ args' = [args EXCEPT !.manual = manual]
                            /\ IF ReadPanics(manual, job)
                               THEN /\ pc' = "crashed"
                                    /\ UNCHANGED <<st, ret>>
                               ELSE LET res == Project(st, StripLabels(manual, job), fail)
                                    IN  /\ st' = res.st
                                        /\ Return(res.err, FALSE)
    /\ UNCHANGED <<id, op, pre, clock, lerr, val>>

resourceKubernetesJobRead == ReadFrom(ServerJobs)

\* Read, its get answering with any object
ReadAnyJob == ReadFrom(Jobs)

----------------------------------------------------------------------------
(* Update *)

Op(kind, path) == [op |-> kind, path |-> path]

\* patchMetadata: one operation per changed metadata field, in field order
patchMetadata(changes) ==
    (IF "annotations" \in changes
     THEN <<Op("replace", <<"metadata", "annotations">>)>> ELSE <<>>)
    \o (IF "labels" \in changes
        THEN <<Op("replace", <<"metadata", "labels">>)>> ELSE <<>>)

\* patchJobSpec: one operation per changed patchable spec field (a changed
\* template yields none)
patchJobSpec(changes) ==
    IF "parallelism" \in changes
    THEN <<Op("replace", <<"spec", "parallelism">>)>> ELSE <<>>

\* d.HasChange("spec")
HasChangeSpec(a) == a.specChanges # {}

\* UpdateOps with the spec operations put in front
UpdateOps_SpecFirst(a) ==
    LET ops == patchMetadata(a.metaChanges)
    IN  IF HasChangeSpec(a) THEN patchJobSpec(a.specChanges) \o ops ELSE ops

\* lines 77-85: the metadata operations, then the spec operations when the
\* spec changed
UpdateOps(a) ==
    LET ops == patchMetadata(a.metaChanges)
    IN  IF HasChangeSpec(a) THEN ops \o patchJobSpec(a.specChanges) ELSE ops

\* UpdateEncode with the error of MarshalJSON dropped
UpdateEncode_IgnoreMarshalErr(a) ==
    IF HasChangeSpec(a) /\ a.specFail THEN PatchSpecErr ELSE NoErr

\* lines 79-90: the error, if any, of building and serializing the operations
UpdateEncode(a) ==
    IF HasChangeSpec(a) /\ a.specFail THEN PatchSpecErr
    ELSE IF a.marshalFail THEN MarshalErr
    ELSE NoErr

\* UpdateId with SetId moved before the error check
UpdateId_SetFirst(r, out, old) == buildId(out)

\* lines 94-100: the identifier after the patch call answered r with out
UpdateId(r, out, old) == IF r # NoErr THEN old ELSE buildId(out)

\* Update returning after a successful patch without running Read
resourceKubernetesJobUpdate_NoRead ==
    /\ pc = "Update"
    /\ LET p == idParts(id)
           e == UpdateEncode(args)
       IN  IF ParseFails(p)
           THEN /\ Return(p.err, FALSE)
                /\ UNCHANGED <<id, trace>>
           ELSE IF e # NoErr
           THEN /\ Return(e, FALSE)
                /\ UNCHANGED <<id, trace>>
           ELSE \E r \in RemoteResults, out \in ObjectMetas :
                  /\ trace' = Append(trace, Event("patch", r, UpdateOps(args),
                                              IF r = NoErr THEN out ELSE NoMeta))
                  /\ id' = UpdateId(r, out, id)
                  /\ Return(r, FALSE)
    /\ UNCHANGED <<st, op, args, pre, clock, lerr, val>>

resourceKubernetesJobUpdate ==
    /\ pc = "Update"
    /\ LET p == idParts(id)
           e == UpdateEncode(args)
       IN  IF ParseFails(p)
           THEN /\ Return(p.err, FALSE)
                /\ UNCHANGED <<id, trace>>
           ELSE IF e # NoErr
           THEN /\ Return(e, FALSE)
                /\ UNCHANGED <<id, trace>>
           ELSE \E r \in RemoteResults, out \in ObjectMetas :
                  /\ trace' = Append(trace, Event("patch", r, UpdateOps(args),
                                              IF r = NoErr THEN out ELSE NoMeta))
                  /\ id' = UpdateId(r, out, id)
                  /\ IF r # NoErr
                     THEN Return(r, FALSE)
                     ELSE pc' = "Read" /\ UNCHANGED ret
    /\ UNCHANGED <<st, op, args, pre, clock, lerr, val>>

----------------------------------------------------------------------------
(* Create *)

\* CreateId with SetId moved before the error check
CreateId_SetFirst(r, out, old) == buildId(out)

\* lines 58-64: the identifier after the create call answered r with out
CreateId(r, out, old) == IF r # NoErr THEN old ELSE buildId(out)

resourceKubernetesJobCreate ==
    /\ pc = "Create"
    /\ IF args.expandFail
       THEN /\ Return(ExpandErr, FALSE)
            /\ UNCHANGED <<id, trace>>
       ELSE \E r \in RemoteResults, out \in ObjectMetas :
              /\ trace' = Append(trace, Event("create", r, <<>>,
                                              IF r = NoErr THEN out ELSE NoMeta))
              /\ id' = CreateId(r, out, id)
              /\ IF r # NoErr
                 THEN Return(r, FALSE)
                 ELSE pc' = "Read" /\ UNCHANGED ret
    /\ UNCHANGED <<st, op, args, pre, clock, lerr, val>>

----------------------------------------------------------------------------
(* Specification *)

Init ==
    /\ id = <<>>
    /\ st = NoState
    /\ pc = "idle"
    /\ op = "none"
    /\ args = NoArgs
    /\ pre = [id |-> <<>>, st |-> NoState]
    /\ trace = <<>>
    /\ ret = Pending
    /\ clock = 0
    /\ lerr = NoErr
    /\ val = [fn |-> "none", i |-> [t |-> "nil", v |-> <<>>], p |-> <<>>,
              es |-> <<>>, panic |-> FALSE]

Next ==
    \/ Invoke
    \/ ImportStatePassthrough
    \/ Finish
    \/ resourceKubernetesJobCreate
    \/ resourceKubernetesJobRead
    \/ resourceKubernetesJobUpdate
    \/ resourceKubernetesJobDelete
    \/ DeletePoll
    \/ RetryWait
    \/ DeleteFinish
    \/ resourceKubernetesJobExists

Spec == Init /\ [][Next]_vars

\* Create and Read alone, the get of Read answering with any object
InvokeRead == InvokeOf({"Create", "Read"})

NextRead ==
    \/ InvokeRead
    \/ ImportStatePassthrough
    \/ Finish
    \/ resourceKubernetesJobCreate
    \/ ReadAnyJob

SpecRead == Init /\ [][NextRead]_vars

\* Delete runs to its end once invoked: each remote call returns and the
\* clock of resource.Retry advances
SpecLive ==
    /\ Init /\ [][Next]_vars
    /\ WF_vars(resourceKubernetesJobDelete)
    /\ WF_vars(DeletePoll)
    /\ WF_vars(RetryWait)
    /\ WF_vars(DeleteFinish)

----------------------------------------------------------------------------
(* Validators (helper/validation): values, strings *)

\* an interface{} value: its dynamic type and its content
Value(t, v) == [t |-> t, v |-> v]

IntValues == {Value("int", n) : n \in (0 - 1)..(MaxVal + 1)}

Digits == <<"0", "1", "2", "3", "4", "5", "6", "7", "8", "9">>
IsDigit(c) == \E k \in 1..10 : Digits[k] = c
DigitVal(c) == (CHOOSE k \in 1..10 : Digits[k] = c) - 1

\* all sequences of length n over the set S
RECURSIVE SeqsOf(_, _)
SeqsOf(S, n) ==
    IF n = 0 THEN {<<>>}
    ELSE {Append(q, x) : q \in SeqsOf(S, n - 1), x \in S}

\* addresses in text form, and CIDR literals: address "/" prefix length
\* (also one prefix length too many, and one written with a leading zero)
AddrTexts == SeqsOf({"0", "1"}, AddrBits)
CIDRTexts ==
    {a \o <<"/", Digits[b + 1]>> : a \in AddrTexts, b \in 0..(AddrBits + 1)}
    \cup {a \o <<"/", "0", "2">> : a \in SeqsOf({"1"}, AddrBits)}

\* strings that are no CIDR literal: no slash, nothing after it, a short
\* address, and plain texts for the other validators
OtherTexts ==
    {<<>>, <<"a">>, <<"A">>, <<"a", "b">>, <<"b">>, <<"1">>, <<"[", "]">>,
     <<"[", "1", "]">>, <<"[">>, <<"(", "a", ")">>, <<"(", "a">>, <<"*">>,
     <<"a", "*">>, <<"1", "/", "1">>, <<"/", "1">>}
    \cup {a \o <<"/">> : a \in SeqsOf({"1"}, AddrBits)}

StringValues == {Value("string", t) : t \in CIDRTexts \cup OtherTexts}

\* lists: of strings, and with an element that is no string
ListElems == {Value("string", <<"a">>), Value("string", <<"b">>)}
ListValues ==
    {Value("list", l) : l \in UNION {SeqsOf(ListElems, n) : n \in 0..MaxList}}
    \cup {Value("list", <<Value("int", 1)>>),
          Value("list", <<Value("string", <<"a">>), Value("int", 1)>>)}

Values ==
    IntValues \cup StringValues \cup ListValues
    \cup {Value("bool", <<>>), Value("nil", <<>>)}

\* an error of a validator (its kind, and the text it names); what a
\* validator returns, or that it panicked
E(kind, v) == [kind |-> kind, v |-> v]
Result(es) == [es |-> es, panic |-> FALSE]
Panic == [es |-> <<>>, panic |-> TRUE]

\* no validator is running; validator fn, called on value i with parameters
\* p, gave r
NotValidating ==
    [fn |-> "none", i |-> Value("nil", <<>>), p |-> <<>>, es |-> <<>>,
     panic |-> FALSE]
Validated(fn, i, p, r) ==
    [fn |-> fn, i |-> i, p |-> p, es |-> r.es, panic |-> r.panic]

\* the caller has taken the result of the validator
ValidateDone ==
    /\ val.fn # "none"
    /\ val' = NotValidating
    /\ UNCHANGED hvars

IntBounds == 0..MaxVal

----------------------------------------------------------------------------
(* Validators: integers *)

\* IntBetween with exclusive bounds
IntBetweenFunc_Exclusive(min, max, i) ==
    IF i.t # "int" THEN Result(<<E("type", <<"int">>)>>)
    ELSE IF i.v <= min \/ i.v >= max THEN Result(<<E("range", <<>>)>>)
    ELSE Result(<<>>)

IntBetweenFunc(min, max, i) ==
    IF i.t # "int" THEN Result(<<E("type", <<"int">>)>>)
    ELSE IF i.v < min \/ i.v > max THEN Result(<<E("range", <<>>)>>)
    ELSE Result(<<>>)

IntAtLeastFunc(min, i) ==
    IF i.t # "int" THEN Result(<<E("type", <<"int">>)>>)
    ELSE IF i.v < min THEN Result(<<E("at least", <<>>)>>)
    ELSE Result(<<>>)

IntAtMostFunc(max, i) ==
    IF i.t # "int" THEN Result(<<E("type", <<"int">>)>>)
    ELSE IF i.v > max THEN Result(<<E("at most", <<>>)>>)
    ELSE Result(<<>>)

IntBetween ==
    \E min \in IntBounds, max \in IntBounds, i \in Values :
        /\ val.fn = "none"
        /\ val' = Validated("IntBetween", i, <<min, max>>,
                            IntBetweenFunc(min, max, i))
        /\ UNCHANGED hvars

IntAtLeast ==
    \E min \in IntBounds, i \in Values :
        /\ val.fn = "none"
        /\ val' = Validated("IntAtLeast", i, <<min>>, IntAtLeastFunc(min, i))
        /\ UNCHANGED hvars

IntAtMost ==
    \E max \in IntBounds, i \in Values :
        /\ val.fn = "none"
        /\ val' = Validated("IntAtMost", i, <<max>>, IntAtMostFunc(max, i))
        /\ UNCHANGED hvars

----------------------------------------------------------------------------
(* Validators: strings *)

\* strings.ToLower on the letters of the model
LowerChar(c) == IF c = "A" THEN "a" ELSE c
ToLower(t) == [k \in 1..Len(t) |-> LowerChar(t[k])]

ValidLists == {<<>>, <<<<"a">>>>, <<<<"b">>, <<"A">>>>}

StringInSliceFunc(valid, ignoreCase, i) ==
    IF i.t # "string" THEN Result(<<E("type", <<"string">>)>>)
    ELSE IF \E k \in 1..Len(valid) :
                \/ i.v = valid[k]
                \/ (ignoreCase /\ ToLower(i.v) = ToLower(valid[k]))
    THEN Result(<<>>)
    ELSE Result(<<E("one of", i.v)>>)

StringLenBetweenFunc(min, max, i) ==
    IF i.t # "string" THEN Result(<<E("type", <<"string">>)>>)
    ELSE IF Len(i.v) < min \/ Len(i.v) > max THEN Result(<<E("length", i.v)>>)
    ELSE Result(<<>>)

StringInSlice ==
    \E valid \in ValidLists, ignoreCase \in BOOLEAN, i \in Values :
        /\ val.fn = "none"
        /\ val' = Validated("StringInSlice", i, <<valid, ignoreCase>>,
                            StringInSliceFunc(valid, ignoreCase, i))
        /\ UNCHANGED hvars

StringLenBetween ==
    \E min \in IntBounds, max \in IntBounds, i \in Values :
        /\ val.fn = "none"
        /\ val' = Validated("StringLenBetween", i, <<min, max>>,
                            StringLenBetweenFunc(min, max, i))
        /\ UNCHANGED hvars

----------------------------------------------------------------------------
(* Validators: CIDR *)

\* the decimal number a text of digits denotes, and the text of a number
RECURSIVE DecVal(_)
DecVal(t) ==
    IF Len(t) = 0 THEN 0
    ELSE 10 * DecVal(SubSeq(t, 1, Len(t) - 1)) + DigitVal(t[Len(t)])
RECURSIVE DecText(_)
DecText(n) ==
    IF n < 10 THEN <<Digits[n + 1]>>
    ELSE DecText(n \div 10) \o <<Digits[(n % 10) + 1]>>

\* net.ParseCIDR: the text up to the first "/" must be an address, the rest
\* a prefix length of at most AddrBits; the network is the address masked
ParseCIDR(t) ==
    LET slashes == {k \in 1..Len(t) : t[k] = "/"}
        bad == [ok |-> FALSE, addr |-> <<>>, bits |-> 0]
    IN  IF slashes = {} THEN bad
        ELSE LET i == CHOOSE k \in slashes : \A j \in slashes : k <= j
                 a == SubSeq(t, 1, i - 1)
                 m == SubSeq(t, i + 1, Len(t))
             IN  IF \/ Len(a) # AddrBits
                    \/ \E k \in 1..Len(a) : a[k] \notin {"0", "1"}
                    \/ Len(m) = 0
                    \/ \E k \in 1..Len(m) : ~IsDigit(m[k])
                 THEN bad
                 ELSE IF DecVal(m) > AddrBits THEN bad
                 ELSE [ok |-> TRUE,
                       addr |-> [k \in 1..AddrBits |->
                                    IF k <= DecVal(m) THEN a[k] ELSE "0"],
                       bits |-> DecVal(m)]

\* ipnet.String()
NetString(n) == n.addr \o <<"/">> \o DecText(n.bits)

\* CIDRNetwork returning after the canonical-form error
CIDRNetworkFunc_ReturnEarly(min, max, i) ==
    IF i.t # "string" THEN Result(<<E("type", <<"string">>)>>)
    ELSE LET n == ParseCIDR(i.v)
         IN  IF ~n.ok THEN Result(<<E("cidr parse", i.v)>>)
             ELSE IF i.v # NetString(n)
                  THEN Result(<<E("cidr canonical", NetString(n))>>)
                  ELSE Result(IF n.bits < min \/ n.bits > max
                              THEN <<E("cidr bits", <<>>)>> ELSE <<>>)

CIDRNetworkFunc(min, max, i) ==
    IF i.t # "string" THEN Result(<<E("type", <<"string">>)>>)
    ELSE LET n == ParseCIDR(i.v)
         IN  IF ~n.ok THEN Result(<<E("cidr parse", i.v)>>)
             ELSE Result(
                    (IF i.v # NetString(n)
                     THEN <<E("cidr canonical", NetString(n))>> ELSE <<>>)
                    \o (IF n.bits < min \/ n.bits > max
                        THEN <<E("cidr bits", <<>>)>> ELSE <<>>))

PrefixBounds == 0..AddrBits

CIDRNetwork ==
    \E min \in PrefixBounds, max \in PrefixBounds, i \in Values :
        /\ val.fn = "none"
        /\ val' = Validated("CIDRNetwork", i, <<min, max>>, CIDRNetworkFunc(min, max, i))
        /\ UNCHANGED hvars

----------------------------------------------------------------------------
(* Validators: JSON strings, lists of unique strings, regular expressions *)

\* well-formed JSON among the texts of the model: a number, or an array
\* that is empty or holds one number
IsJsonNumber(t) ==
    /\ Len(t) > 0
    /\ \A k \in 1..Len(t) : IsDigit(t[k])
    /\ (Len(t) = 1 \/ t[1] # "0")
IsJson(t) ==
    \/ IsJsonNumber(t)
    \/ /\ Len(t) >= 2
       /\ t[1] = "["
       /\ t[Len(t)] = "]"
       /\ (Len(t) = 2 \/ IsJsonNumber(SubSeq(t, 2, Len(t) - 1)))

\* structure.NormalizeJsonString: an error for a value that is no string or
\* no well-formed JSON
NormalizeJsonStringFails(i) == i.t # "string" \/ ~IsJson(i.v)

\* ValidateJsonString has no check of its own: it reports the error of
\* NormalizeJsonString as an invalid-JSON error
ValidateJsonStringFunc(i) ==
    IF NormalizeJsonStringFails(i)
    THEN Result(<<E("json", IF i.t = "string" THEN i.v ELSE <<>>)>>)
    ELSE Result(<<>>)

\* the index pairs (n1, n2) in the order of the two nested loops
Pairs(n) == [k \in 1..(n * n) |-> <<((k - 1) \div n) + 1, ((k - 1) % n) + 1>>]

\* ValidateListUniqueStrings reporting each pair of positions once
ValidateListUniqueStringsFunc_Unordered(i) ==
    IF i.t # "list" THEN Panic
    ELSE IF \E k \in 1..Len(i.v) : i.v[k].t # "string" THEN Panic
    ELSE LET dup == SelectSeq(Pairs(Len(i.v)),
                        LAMBDA q : i.v[q[1]].v = i.v[q[2]].v /\ q[1] < q[2])
         IN  Result([k \in 1..Len(dup) |-> E("duplicate", i.v[dup[k][1]].v)])

\* the assertions v.([]interface{}) and v1.(string), v2.(string) are
\* unchecked: a value that is no list, or an element that is no string, panics
ValidateListUniqueStringsFunc(i) ==
    IF i.t # "list" THEN Panic
    ELSE IF \E k \in 1..Len(i.v) : i.v[k].t # "string" THEN Panic
    ELSE LET dup == SelectSeq(Pairs(Len(i.v)),
                        LAMBDA q : i.v[q[1]].v = i.v[q[2]].v /\ q[1] # q[2])
         IN  Result([k \in 1..Len(dup) |-> E("duplicate", i.v[dup[k][1]].v)])

\* regexp.Compile on the patterns of the model: groups and classes must be
\* closed, a class must not be empty, and "*" needs something to repeat
RECURSIVE Compiles(_, _, _, _, _)
Compiles(t, k, depth, class, rep) ==
    IF k > Len(t) THEN depth = 0 /\ class < 0
    ELSE IF class >= 0
         THEN IF t[k] = "]" /\ class > 0
              THEN Compiles(t, k + 1, depth, 0 - 1, TRUE)
              ELSE Compiles(t, k + 1, depth, class + 1, FALSE)
    ELSE IF t[k] = "[" THEN Compiles(t, k + 1, depth, 0, FALSE)
    ELSE IF t[k] = "(" THEN Compiles(t, k + 1, depth + 1, class, FALSE)
    ELSE IF t[k] = ")"
         THEN depth > 0 /\ Compiles(t, k + 1, depth - 1, class, TRUE)
    ELSE IF t[k] = "*" THEN rep /\ Compiles(t, k + 1, depth, class, FALSE)
    ELSE Compiles(t, k + 1, depth, class, TRUE)

\* the assertion v.(string) is unchecked: a value that is no string panics
ValidateRegexpFunc(i) ==
    IF i.t # "string" THEN Panic
    ELSE Result(IF Compiles(i.v, 1, 0, 0 - 1, FALSE)
                THEN <<>> ELSE <<E("regexp", i.v)>>)

ValidateJsonString ==
    \E i \in Values :
        /\ val.fn = "none"
        /\ val' = Validated("ValidateJsonString", i, <<>>,
                            ValidateJsonStringFunc(i))
        /\ UNCHANGED hvars

ValidateListUniqueStrings ==
    \E i \in Values :
        /\ val.fn = "none"
        /\ val' = Validated("ValidateListUniqueStrings", i, <<>>,
                            ValidateListUniqueStringsFunc(i))
        /\ UNCHANGED hvars

ValidateRegexp ==
    \E i \in Values :
        /\ val.fn = "none"
        /\ val' = Validated("ValidateRegexp", i, <<>>, ValidateRegexpFunc(i))
        /\ UNCHANGED hvars

\* the validators, applied to any value in any order
NextValidate ==
    \/ IntBetween
    \/ IntAtLeast
    \/ IntAtMost
    \/ StringInSlice
    \/ StringLenBetween
    \/ CIDRNetwork
    \/ ValidateJsonString
    \/ ValidateListUniqueStrings
    \/ ValidateRegexp
    \/ ValidateDone

SpecValidate == Init /\ [][NextValidate]_vars

----------------------------------------------------------------------------
(* Vocabulary of the properties *)

NotFound == [type |-> "StatusError", code |-> 404]
IsGet(i) == trace[i].call = "get"
ParsesAsId(s) == Len(Split(s)) = 2

\* a poll issued after Delete's own successful delete call answered 404
PollSawNotFound ==
    \E i \in 1..Len(trace) :
        /\ IsGet(i) /\ trace[i].res = NotFound
        /\ \E j \in 1..(i - 1) : trace[j].call = "delete" /\ trace[j].res = NoErr

----------------------------------------------------------------------------
(* Delete *)

\* C1: when Delete has returned, the identifier was cleared if and only if
\* a poll issued after its own delete call answered 404; until then, and on
\* every error return, the identifier is the one Delete was invoked with.
C1_ClearedOnlyOnConfirmedDeletion ==
    op = "Delete" =>
        /\ pc # "done" => id = pre.id
        /\ pc = "done" =>
             /\ (id # pre.id) <=> PollSawNotFound
             /\ PollSawNotFound => id = <<>> /\ ret.err = NoErr
             /\ ret.err # NoErr => id = pre.id
             /\ ret.err = NoErr => PollSawNotFound

\* Delete returned success after at least one wait, the identifier cleared
C1_Witness ==
    /\ op = "Delete" /\ pc = "done" /\ ret.err = NoErr
    /\ id = <<>> /\ pre.id # <<>>
    /\ \E i \in 1..Len(trace) : trace[i].call = "wait"

\* C2: in Delete's polling loop a get that answers 404 is the last event of
\* the invocation (no further get, no wait), the loop ends without error
\* and Delete returns no error; when it is the first poll, no wait happened.
C2_NotFoundEndsLoopWithSuccess ==
    op = "Delete" =>
        \A i \in 1..Len(trace) :
            (IsGet(i) /\ trace[i].res = NotFound) =>
                /\ i = Len(trace)
                /\ pc \in {"DeleteDone", "done"}
                /\ lerr = NoErr
                /\ pc = "done" => ret.err = NoErr
                /\ (\A j \in 1..(i - 1) : ~IsGet(j)) =>
                       /\ \A j \in 1..Len(trace) : trace[j].call # "wait"
                       /\ clock = 0

\* Delete returned after its first poll answered 404
C2_Witness ==
    /\ op = "Delete" /\ pc = "done"
    /\ Len(trace) = 2 /\ IsGet(2) /\ trace[2].res = NotFound

\* C3: in Delete's polling loop a get that fails with anything but a 404
\* status is the last event of the invocation, and Delete returns exactly
\* that error, on the first poll and on any later one.
C3_OtherErrorAbortsLoop ==
    op = "Delete" =>
        \A i \in 1..Len(trace) :
            (IsGet(i) /\ trace[i].res \notin {NoErr, NotFound}) =>
                /\ i = Len(trace)
                /\ pc \in {"DeleteDone", "done"}
                /\ lerr = trace[i].res
                /\ pc = "done" => ret.err = trace[i].res

\* Delete returned a fatal error met on a later poll, after a wait
C3_Witness ==
    /\ op = "Delete" /\ pc = "done"
    /\ Len(trace) >= 4
    /\ IsGet(Len(trace))
    /\ trace[Len(trace)].res = [type |-> "StatusError", code |-> 500]
    /\ ret.err = trace[Len(trace)].res

\* C4: in Delete's polling loop only a get that succeeded is followed by
\* another get; no get is issued once the 1-minute deadline is reached; and
\* when every poll found the object readable, Delete returns the timeout
\* error, at the deadline, its last event being a wait.
C4_RetryOnlyWhileReadableUntilDeadline ==
    op = "Delete" =>
        /\ \A i, j \in 1..Len(trace) :
               (i < j /\ IsGet(i) /\ IsGet(j)) => trace[i].res = NoErr
        /\ pc \in {"Poll", "Wait"} => clock < DeleteTimeout
        /\ (/\ pc = "done"
            /\ \E i \in 1..Len(trace) : IsGet(i)
            /\ \A i \in 1..Len(trace) : IsGet(i) => trace[i].res = NoErr) =>
               /\ ret.err = TimeoutErr
               /\ clock = DeleteTimeout
               /\ trace[Len(trace)].call = "wait"
               /\ id = pre.id

\* Delete timed out after several polls that all found the object
C4_Witness ==
    /\ op = "Delete" /\ pc = "done" /\ ret.err = TimeoutErr
    /\ Cardinality({i \in 1..Len(trace) : IsGet(i)}) >= 3

----------------------------------------------------------------------------
(* Exists *)

\* C5: Exists, invoked with an identifier that parses, has issued exactly
\* one get when it returns, and returns (false, nil) on a 404 status,
\* (true, err) on any other error and (true, nil) on success.
C5_ExistsResult ==
    (op = "Exists" /\ pc = "done" /\ ParsesAsId(pre.id)) =>
        /\ Len(trace) = 1
        /\ IsGet(1)
        /\ LET r == trace[1].res
           IN  /\ r = NotFound => (~ret.exists /\ ret.err = NoErr)
               /\ r \notin {NoErr, NotFound} => (ret.exists /\ ret.err = r)
               /\ r = NoErr => (ret.exists /\ ret.err = NoErr)

\* Exists returned (true, err) for an error that is no 404 status
C5_Witness ==
    /\ op = "Exists" /\ pc = "done"
    /\ Len(trace) = 1 /\ trace[1].res = PlainErr
    /\ ret.exists /\ ret.err = PlainErr

----------------------------------------------------------------------------
(* Update *)

\* the operations of a patch document under /metadata, and under /spec
MetadataOps(doc) == SelectSeq(doc, LAMBDA o : o.path[1] = "metadata")
SpecOps(doc) == SelectSeq(doc, LAMBDA o : o.path[1] = "spec")
\* building and serializing the operations of this invocation succeeds
EncodingFails == (args.specChanges # {} /\ args.specFail) \/ args.marshalFail

\* C6: when the patch call of Update failed, Update has returned that
\* error, the patch is the only remote call of the invocation (no get, so
\* no Read), and the identifier and the attributes are those Update was
\* invoked with.
C6_FailedPatchLeavesStateAlone ==
    op = "Update" =>
        \A i \in 1..Len(trace) :
            (trace[i].call = "patch" /\ trace[i].res # NoErr) =>
                /\ pc = "done"
                /\ ret.err = trace[i].res
                /\ Len(trace) = 1
                /\ id = pre.id
                /\ st = pre.st

\* Update returned the error of its patch call, the server's object being
\* named otherwise than the identifier
C6_Witness ==
    /\ op = "Update" /\ pc = "done"
    /\ Len(trace) = 1 /\ trace[1].call = "patch"
    /\ trace[1].res = [type |-> "StatusError", code |-> 500]
    /\ ret.err = trace[1].res
    /\ pre.st.metadata.set

\* C7: an Update whose identifier parses and whose operations are built and
\* serialized without error issues exactly one patch call, as its first
\* remote call; once that call succeeded Read runs and issues exactly one
\* get, after the patch; after a failed patch nothing follows.
C7_OnePatchThenOneGet ==
    (op = "Update" /\ pc # "Update" /\ ParsesAsId(pre.id) /\ ~EncodingFails) =>
        /\ Cardinality(Calls("patch")) = 1
        /\ trace[1].call = "patch"
        /\ \A i \in Calls("get") : i > 1
        /\ trace[1].res # NoErr => (pc = "done" /\ Len(trace) = 1)
        /\ trace[1].res = NoErr =>
             \/ pc = "Read" /\ Len(trace) = 1
             \/ pc \in {"done", "crashed"} /\ Len(trace) = 2 /\ IsGet(2)

\* Update returned after its patch and the get of Read both succeeded
C7_Witness ==
    /\ op = "Update" /\ pc = "done" /\ ret.err = NoErr
    /\ Len(trace) = 2
    /\ trace[1].call = "patch" /\ trace[1].res = NoErr
    /\ IsGet(2) /\ trace[2].res = NoErr

\* C8: the document of Update's patch call is the metadata operations
\* followed by the spec operations; it holds spec operations only when the
\* spec changed, and is the metadata operations alone otherwise; when
\* nothing changed the patch call is issued all the same, with no operation.
C8_PatchDocument ==
    op = "Update" =>
        /\ \A i \in Calls("patch") :
             LET doc == trace[i].doc
             IN  /\ doc = MetadataOps(doc) \o SpecOps(doc)
                 /\ MetadataOps(doc) = patchMetadata(args.metaChanges)
                 /\ SpecOps(doc) # <<>> => args.specChanges # {}
                 /\ args.specChanges # {} => SpecOps(doc) = patchJobSpec(args.specChanges)
                 /\ args.specChanges = {} => doc = patchMetadata(args.metaChanges)
        /\ (/\ pc # "Update" /\ ParsesAsId(pre.id) /\ ~EncodingFails
            /\ args.metaChanges = {} /\ args.specChanges = {}) =>
               /\ Calls("patch") = {1}
               /\ trace[1].doc = <<>>

\* a patch was sent whose document holds metadata and spec operations
C8_Witness ==
    /\ op = "Update"
    /\ Calls("patch") = {1}
    /\ Len(MetadataOps(trace[1].doc)) = 2
    /\ Len(SpecOps(trace[1].doc)) = 1

\* C9: when building the spec operations or serializing the operations
\* fails, Update has returned an error, has issued no remote call, and the
\* identifier and the attributes are those it was invoked with.
C9_EncodingFailureIssuesNoCall ==
    (op = "Update" /\ pc # "Update" /\ ParsesAsId(pre.id) /\ EncodingFails) =>
        /\ pc = "done"
        /\ ret.err = (IF args.specChanges # {} /\ args.specFail
                      THEN PatchSpecErr ELSE MarshalErr)
        /\ trace = <<>>
        /\ id = pre.id
        /\ st = pre.st

\* Update returned the serialization error for a changed spec
C9_Witness ==
    /\ op = "Update" /\ pc = "done"
    /\ args.marshalFail /\ args.specChanges # {} /\ ParsesAsId(pre.id)
    /\ ret.err = MarshalErr

----------------------------------------------------------------------------
(* Create *)

\* C10: when Create has returned, the identifier is set if and only if the
\* create call succeeded, and is then built from the metadata of the object
\* that call returned; a failure to expand the spec issues no remote call;
\* a failed create is the only call of the invocation; and the identifier
\* is stored before the get of the follow-up Read is issued.
C10_CreateStoresReturnedIdentifier ==
    op = "Create" =>
        /\ pc = "done" =>
             /\ (id # <<>>) <=> (\E i \in Calls("create") : trace[i].res = NoErr)
             /\ id # <<>> => id = buildId(trace[1].out)
        /\ (args.expandFail /\ pc # "Create") =>
             /\ pc = "done" /\ ret.err = ExpandErr /\ trace = <<>>
        /\ \A i \in Calls("create") :
             trace[i].res # NoErr =>
                 /\ pc = "done" /\ ret.err = trace[i].res /\ Len(trace) = 1
        /\ (pc = "Read" \/ Calls("get") # {}) =>
             /\ trace[1].call = "create" /\ trace[1].res = NoErr
             /\ id = buildId(trace[1].out)
             /\ \A i \in Calls("get") : i > 1

\* Create returned after a successful create and get, the identifier built
\* from the returned metadata
C10_Witness ==
    /\ op = "Create" /\ pc = "done" /\ ret.err = NoErr
    /\ Len(trace) = 2 /\ IsGet(2)
    /\ id = <<"n", "/", "k">>
    /\ trace[1].out = [ns |-> <<"n">>, name |-> <<"k">>]

----------------------------------------------------------------------------
(* Read *)

\* the handlers that run Read: Read itself, and Create and Update after
\* their write
RunsRead == op \in {"Read", "Create", "Update"}

\* C11: a Read that gets past the parsing of the identifier issues exactly
\* one get; when that get fails, with a 404 status or any other error, it
\* is the last event of the invocation (no retry), the handler has returned
\* exactly that error, and the identifier and the projected metadata and
\* spec are what they were when Read started.
C11_FailedGetLeavesStateAlone ==
    /\ (op = "Read" /\ pc \in {"done", "crashed"} /\ ParsesAsId(pre.id)) =>
           (Len(trace) = 1 /\ IsGet(1))
    /\ RunsRead =>
           \A i \in 1..Len(trace) :
               (IsGet(i) /\ trace[i].res # NoErr) =>
                   /\ i = Len(trace)
                   /\ Calls("get") = {i}
                   /\ pc = "done"
                   /\ ret.err = trace[i].res
                   /\ st = pre.st
                   /\ id = (IF op = "Read" THEN pre.id ELSE buildId(trace[1].out))

\* Read returned the 404 of its get, metadata and spec having been projected
\* by an earlier Read
C11_Witness ==
    /\ op = "Read" /\ pc = "done"
    /\ Len(trace) = 1 /\ trace[1].res = NotFound
    /\ ret.err = NotFound
    /\ pre.st.metadata.set /\ pre.st.spec.set

\* the object the get of Read answered with, once Read got it
GotJob == trace[Len(trace)].out

\* maps a and b agree on key k: both lack it, or both hold the same value
SameAt(a, b, k) == HasKey(a, k) = HasKey(b, k) /\ (HasKey(a, k) => a.m[k] = b.m[k])
SameOn(a, b, K) == \A k \in K : SameAt(a, b, k)

\* C12: after a successful Read with manual_selector not set, the projected
\* labels hold neither controller-uid nor job-name, the projected match
\* labels do not hold controller-uid, and every other label of the server's
\* object is projected with its value; with manual_selector set, every
\* label and match label of the server's object is projected with its value.
C12_ServerLabelsStripped ==
    (RunsRead /\ pc = "done" /\ ret.err = NoErr) =>
        /\ st.metadata.set /\ st.spec.set
        /\ IF args.manual
           THEN /\ SameOn(st.metadata.labels, GotJob.labels, LabelKeys)
                /\ st.spec.selector.nil = GotJob.selector.nil
                /\ SameOn(st.spec.selector.matchLabels,
                          GotJob.selector.matchLabels, SelectorKeys)
           ELSE /\ ~HasKey(st.metadata.labels, "controller-uid")
                /\ ~HasKey(st.metadata.labels, "job-name")
                /\ ~HasKey(st.spec.selector.matchLabels, "controller-uid")
                /\ SameOn(st.metadata.labels, GotJob.labels,
                          LabelKeys \ {"controller-uid", "job-name"})
                /\ SameOn(st.spec.selector.matchLabels,
                          GotJob.selector.matchLabels,
                          SelectorKeys \ {"controller-uid"})

\* Read succeeded, manual_selector not set, on an object that held all three
\* labels and both match labels
C12_Witness ==
    /\ op = "Read" /\ pc = "done" /\ ret.err = NoErr /\ ~args.manual
    /\ \A k \in LabelKeys : HasKey(GotJob.labels, k)
    /\ \A k \in SelectorKeys : HasKey(GotJob.selector.matchLabels, k)
    /\ HasKey(st.metadata.labels, "app")
    /\ HasKey(st.spec.selector.matchLabels, "app")

----------------------------------------------------------------------------
(* Validators *)

\* the type a validator expects of its value
ExpectedType(fn) ==
    IF fn \in {"IntBetween", "IntAtLeast", "IntAtMost"} THEN "int"
    ELSE IF fn = "ValidateListUniqueStrings" THEN "list"
    ELSE "string"

\* a validator has been called on a value of another type than it expects
WrongType == val.fn # "none" /\ val.i.t # ExpectedType(val.fn)

\* C13: a validator called on a value of the wrong type does not panic and
\* returns exactly one error, the expected-type error (for
\* ValidateJsonString, whose only check is NormalizeJsonString, the one error
\* that function gives).
C13_WrongTypeNeverPanics ==
    WrongType =>
        /\ ~val.panic
        /\ Len(val.es) = 1
        /\ val.fn # "ValidateJsonString" =>
               val.es = <<E("type", <<ExpectedType(val.fn)>>)>>

\* the validators that assert the type with the checked form do return the
\* expected-type error and nothing else; the two with the unchecked form panic
C13_CheckedValidators ==
    WrongType =>
        IF val.fn \in {"ValidateListUniqueStrings", "ValidateRegexp"}
        THEN val.panic
        ELSE /\ ~val.panic
             /\ Len(val.es) = 1
             /\ val.fn # "ValidateJsonString" =>
                    val.es = <<E("type", <<ExpectedType(val.fn)>>)>>

\* ValidateListUniqueStrings has been called on a list of strings
UniqueInput ==
    /\ val.fn = "ValidateListUniqueStrings"
    /\ val.i.t = "list"
    /\ \A k \in 1..Len(val.i.v) : val.i.v[k].t = "string"

\* the ordered pairs of distinct positions of l that hold equal elements
EqualPairs(l) ==
    {q \in (1..Len(l)) \X (1..Len(l)) : q[1] # q[2] /\ l[q[1]] = l[q[2]]}

\* C14: on a list of strings ValidateListUniqueStrings returns no error
\* exactly when the elements are pairwise distinct, and otherwise one error
\* for each ordered pair of distinct positions holding equal strings, each
\* naming the string of its pair.
C14_OneErrorPerOrderedPair ==
    UniqueInput =>
        LET l == val.i.v
        IN  /\ ~val.panic
            /\ (val.es = <<>>) <=>
                   (\A a, b \in 1..Len(l) : a # b => l[a] # l[b])
            /\ Len(val.es) = Cardinality(EqualPairs(l))
            /\ \A k \in 1..Len(l) :
                   Cardinality({e \in 1..Len(val.es) :
                                    val.es[e] = E("duplicate", l[k].v)})
                   = Cardinality({q \in EqualPairs(l) : l[q[1]] = l[k]})

\* the list a, b, a gave two errors, both naming a
C14_Witness ==
    /\ UniqueInput
    /\ Len(val.i.v) = 3
    /\ val.i.v[1] = val.i.v[3] /\ val.i.v[1] # val.i.v[2]
    /\ val.es = <<E("duplicate", val.i.v[1].v), E("duplicate", val.i.v[1].v)>>

\* C15: on an integer v, IntBetween(min, max) returns no error exactly when
\* min <= v <= max, IntAtLeast(min) exactly when v >= min, IntAtMost(max)
\* exactly when v <= max; otherwise each returns exactly one error.
C15_InclusiveBounds ==
    (val.fn \in {"IntBetween", "IntAtLeast", "IntAtMost"} /\ val.i.t = "int") =>
        LET v == val.i.v
            within ==
                IF val.fn = "IntBetween" THEN val.p[1] <= v /\ v <= val.p[2]
                ELSE IF val.fn = "IntAtLeast" THEN v >= val.p[1]
                ELSE v <= val.p[1]
        IN  /\ ~val.panic
            /\ within => val.es = <<>>
            /\ ~within => Len(val.es) = 1

\* IntBetween accepted a value equal to its upper bound, above its lower one
C15_Witness ==
    /\ val.fn = "IntBetween" /\ val.i.t = "int"
    /\ val.p[1] < val.p[2] /\ val.i.v = val.p[2]
    /\ val.es = <<>>

\* C16: on a string CIDRNetwork(min, max) returns no error exactly when the
\* string parses as a CIDR, equals its canonical masked form and has a
\* prefix length within [min, max]; a string that does not parse gives
\* exactly one error; on a string that parses, the canonical-form error is
\* there exactly when the string is not canonical and the prefix error
\* exactly when the prefix length is out of bounds, whatever the other is.
C16_CIDRChecksIndependent ==
    (val.fn = "CIDRNetwork" /\ val.i.t = "string") =>
        LET n == ParseCIDR(val.i.v)
            canonical == val.i.v = NetString(n)
            within == val.p[1] <= n.bits /\ n.bits <= val.p[2]
            has(kind) == \E k \in 1..Len(val.es) : val.es[k].kind = kind
        IN  /\ ~val.panic
            /\ (val.es = <<>>) <=> (n.ok /\ canonical /\ within)
            /\ ~n.ok => Len(val.es) = 1 /\ has("cidr parse")
            /\ n.ok =>
                  /\ has("cidr canonical") <=> ~canonical
                  /\ has("cidr bits") <=> ~within
                  /\ ~has("cidr parse")
                  /\ Len(val.es) = (IF canonical THEN 0 ELSE 1)
                                   + (IF within THEN 0 ELSE 1)

\* a literal with host bits set and a prefix length out of bounds gave the
\* two errors, the canonical-form error first
C16_Witness ==
    /\ val.fn = "CIDRNetwork" /\ val.i.t = "string"
    /\ ParseCIDR(val.i.v).ok
    /\ Len(val.es) = 2
    /\ val.es[1].kind = "cidr canonical" /\ val.es[2].kind = "cidr bits"

----------------------------------------------------------------------------
(* Delete: the delete call, termination; malformed identifiers; Read *)

\* the delete call of Delete has returned an error
DeleteCallFailed ==
    /\ op = "Delete" /\ trace # <<>>
    /\ trace[1].call = "delete" /\ trace[1].res # NoErr

\* C17: when the remote delete call of Delete returns an error, a 404
\* included, Delete has returned that error: the delete is its only remote
\* call (no poll, no get) and the identifier and the state are as before.
C17_FailedDeleteCallReturnsAtOnce ==
    DeleteCallFailed =>
        /\ pc = "done"
        /\ ret = Returned(trace[1].res, FALSE)
        /\ Len(trace) = 1
        /\ id = pre.id /\ id # <<>>
        /\ st = pre.st

\* the delete call answered 404 and Delete returned it, the identifier kept
C17_Witness ==
    /\ DeleteCallFailed
    /\ trace[1].res = NotFound
    /\ ret.err = NotFound
    /\ id = pre.id

\* how a Delete that has returned came to its end: a malformed identifier, a
\* failed delete call, a 404 of the last get, a fatal error of the last get,
\* or the timeout at the deadline
DeleteEnded ==
    /\ op = "Delete" /\ pc = "done" /\ ret.done
    /\ \/ ~ParsesAsId(pre.id) /\ trace = <<>>
       \/ DeleteCallFailed
       \/ /\ Len(trace) > 1 /\ IsGet(Len(trace))
          /\ \/ trace[Len(trace)].res = NotFound /\ ret.err = NoErr
             \/ /\ trace[Len(trace)].res \notin {NoErr, NotFound}
                /\ ret.err = trace[Len(trace)].res
       \/ ret.err = TimeoutErr /\ clock >= DeleteTimeout

\* C18: every invocation of Delete eventually returns, whatever the remote
\* calls answer, given that each call returns and time advances: by success
\* on not-found, by a fatal error, or by the timeout.
C18_DeleteEventuallyReturns == (pc = "Delete") ~> DeleteEnded

\* Delete polled more than once, the object still there each time, and
\* returned the timeout error at the deadline
C18_Witness ==
    /\ DeleteEnded
    /\ ret.err = TimeoutErr
    /\ Cardinality(Calls("get")) >= 2
    /\ \A i \in Calls("get") : trace[i].res = NoErr

\* Read, Update, Delete or Exists, invoked from the framework on an
\* identifier that does not parse, has taken its first step
RanOnMalformedId ==
    /\ op \in {"Read", "Update", "Delete", "Exists"}
    /\ pc # op
    /\ ~ParsesAsId(pre.id)

\* C19: on an identifier that cannot be parsed, Read, Update and Delete
\* return the parse error and Exists returns (false, parse error); no remote
\* call is issued, the identifier and the state are unchanged.
C19_MalformedIdReturnsParseError ==
    RanOnMalformedId =>
        /\ pc = "done"
        /\ ret = Returned(IdErr, FALSE)
        /\ trace = <<>>
        /\ id = pre.id
        /\ st = pre.st

\* Exists has returned (false, parse error) on an imported identifier that
\* does not split into namespace and name, without a remote call
C19_Witness ==
    /\ op = "Exists" /\ pc = "done"
    /\ ~ParsesAsId(id)
    /\ ret = Returned(IdErr, FALSE)
    /\ trace = <<>>

\* the get of Read has answered with an object, manual_selector not set
ReadGotJob ==
    /\ RunsRead /\ pc \notin {"Read", "Create", "Update"}
    /\ trace # <<>> /\ IsGet(Len(trace)) /\ trace[Len(trace)].res = NoErr
    /\ ~args.manual

\* C20: Read with manual_selector not set, whatever object its get answers
\* with (no selector, no label maps), does not crash: it has returned,
\* either an error or, with the state projected, none.
C20_ReadNeverCrashes ==
    ReadGotJob =>
        /\ pc = "done" /\ ret.done
        /\ ret.err = NoErr => (st.metadata.set /\ st.spec.set)

\* an object without label maps but with a selector is no trouble: Read has
\* returned; only an object without selector crashes it
C20_CrashesOnNilSelectorOnly ==
    ReadGotJob => (pc = "crashed" <=> GotJob.selector.nil)

====
